---- MODULE Spec2Model ----
(***************************************************************************)
(* Conway's Game of Life: the dense World of life/World.py.                *)
(*                                                                         *)
(* A Python value is modelled by its literal: "True" and "False" are the   *)
(* two bools, "1" is an int (a value whose type is not bool).  A grid is a *)
(* sequence of rows, a row a sequence of values.  Coordinates are the      *)
(* code's zero-indexed (row index, column index) pairs; the sequences of   *)
(* TLA+ are one-indexed, so list element i is seq[i + 1].                  *)
(***************************************************************************)
EXTENDS FiniteSets, Integers, Sequences, TLC

VARIABLES
    raw,      \* the initial_state argument handed to World(...)
    pc,       \* "start": not yet constructed; "constructed"; "failed": __init__ raised
    state,    \* self.state
    raised,   \* the exception the last operation raised, or "none"
    calls,    \* number of next_state calls that have returned
    lookups   \* the coordinates handed to __get_cell by the last next_state call

vars == <<raw, pc, state, raised, calls, lookups>>

\* ------------------------------------------------------------------ bounds
\* arbitrary boolean grids have at most MaxRows rows and MaxCols columns
MaxRows == 3
MaxCols == 2
\* arbitrary (possibly jagged, possibly non-bool) inputs
MaxRawRows == 3
MaxRawCols == 1
\* grids that carry one of the named patterns are at most this wide and long
MaxPatternDim == 5
\* next_state is called at most this many times on one World
MaxCalls == 10

\* ------------------------------------------------------------ Python values
PyValues == {"True", "False", "1"}

\* a type test that lets every int through, as isinstance(cell, int) would
TypeOf_isinstance(cell) == "bool"

\* type(cell)
TypeOf(cell) == IF cell \in {"True", "False"} THEN "bool" ELSE "int"

\* truth value of a Python value
Truthy(v) == v \in {"True", "1"}

\* the Python bool of a condition
PyBool(b) == IF b THEN "True" ELSE "False"

\* list indexing seq[i]: a negative index counts from the end, an index
\* outside [-len, len) raises IndexError
InRange(seq, i) == -Len(seq) <= i /\ i < Len(seq)
PyIndex(seq, i) == IF i >= 0 THEN seq[i + 1] ELSE seq[Len(seq) + i + 1]

\* ------------------------------------------------------- World.__validate_state
RECURSIVE validate_rows_length_first(_, _, _)
\* the loop with the length of a row tested before its cells
validate_rows_length_first(st, i, row_lengths) ==
    IF i > Len(st) THEN "ok"
    ELSE LET row == st[i]
             row_length == Len(row)
         IN  IF row_lengths # {} /\ row_length \notin row_lengths
                 THEN "ValueError"
             ELSE IF \E k \in 1..Len(row) : TypeOf(row[k]) # "bool"
                 THEN "TypeError"
             ELSE validate_rows_length_first(st, i + 1, row_lengths \cup {row_length})

RECURSIVE validate_rows(_, _, _)
\* the loop over the rows from row i on, row_lengths being the set built so far
validate_rows(st, i, row_lengths) ==
    IF i > Len(st) THEN "ok"
    ELSE LET row == st[i]
             row_length == Len(row)
         IN  IF \E k \in 1..Len(row) : TypeOf(row[k]) # "bool"
                 THEN "TypeError"
             ELSE IF row_lengths # {} /\ row_length \notin row_lengths
                 THEN "ValueError"
             ELSE validate_rows(st, i + 1, row_lengths \cup {row_length})

validate_state(st) == validate_rows(st, 1, {})

\* a constructor that normalises its input by dropping the empty rows
init_state_dropping(initial_state) ==
    SelectSeq(initial_state, LAMBDA row : row # <<>>)

\* self.state = initial_state
init_state(initial_state) == initial_state

\* World.get_state
get_state == state

\* World.get_dimensions: (length, width)
get_dimensions(st) ==
    IF st # <<>> THEN <<Len(st[1]), Len(st)>> ELSE <<0, 0>>

\* the bounds test without its lower bounds
is_valid_coordinate_no_min(st, coordinate) ==
    /\ coordinate[1] <= get_dimensions(st)[2] - 1
    /\ coordinate[2] <= get_dimensions(st)[1] - 1

\* the bounds test without its upper bounds
is_valid_coordinate_no_max(st, coordinate) ==
    /\ 0 <= coordinate[1]
    /\ 0 <= coordinate[2]

\* World.__is_valid_coordinate
is_valid_coordinate(st, coordinate) ==
    LET min_row_index == 0
        min_col_index == 0
        length == get_dimensions(st)[1]
        width == get_dimensions(st)[2]
        max_row_index == width - 1
        max_col_index == length - 1
        row_index == coordinate[1]
        col_index == coordinate[2]
        is_valid_row_index == min_row_index <= row_index /\ row_index <= max_row_index
        is_valid_col_index == min_col_index <= col_index /\ col_index <= max_col_index
    IN  is_valid_row_index /\ is_valid_col_index

\* World.__get_cell: self.state[row_index][col_index], or "IndexError"
get_cell(st, coordinate) ==
    LET row_index == coordinate[1]
        col_index == coordinate[2]
    IN  IF ~InRange(st, row_index) THEN "IndexError"
        ELSE IF ~InRange(PyIndex(st, row_index), col_index) THEN "IndexError"
        ELSE PyIndex(PyIndex(st, row_index), col_index)

\* the (row_offset, col_offset) pairs that pass the filter of the comprehension
\* in __live_neighbour_count
offsets == -1..1
neighbour_offsets(st, coordinate) ==
    {o \in offsets \X offsets :
        /\ ~(o[1] = 0 /\ o[2] = 0)
        /\ is_valid_coordinate(st, <<coordinate[1] + o[1], coordinate[2] + o[2]>>)}

\* the coordinates __live_neighbour_count hands to __get_cell
neighbour_coordinates(st, coordinate) ==
    {<<coordinate[1] + o[1], coordinate[2] + o[2]>> : o \in neighbour_offsets(st, coordinate)}

\* the count with the cell itself among its neighbours
live_neighbour_count_with_self(st, coordinate) ==
    Cardinality({o \in offsets \X offsets :
        /\ is_valid_coordinate(st, <<coordinate[1] + o[1], coordinate[2] + o[2]>>)
        /\ Truthy(get_cell(st, <<coordinate[1] + o[1], coordinate[2] + o[2]>>))})

\* World.__live_neighbour_count: sum(neighbours)
live_neighbour_count(st, coordinate) ==
    Cardinality({o \in neighbour_offsets(st, coordinate) :
        Truthy(get_cell(st, <<coordinate[1] + o[1], coordinate[2] + o[2]>>))})

\* the rule without births
next_cell_no_birth(st, coordinate, is_live) ==
    PyBool(Truthy(is_live) /\ live_neighbour_count(st, coordinate) \in {2, 3})

\* the rule with survival on exactly two neighbours
next_cell_survive_two(st, coordinate, is_live) ==
    LET count == live_neighbour_count(st, coordinate)
    IN  PyBool((Truthy(is_live) /\ count = 2) \/ (~Truthy(is_live) /\ count = 3))

\* the rule with births on two or three neighbours
next_cell_born_on_two(st, coordinate, is_live) ==
    PyBool(live_neighbour_count(st, coordinate) \in {2, 3})

\* World.__next_cell
next_cell(st, coordinate, is_live) ==
    LET count == live_neighbour_count(st, coordinate)
        stays_live == Truthy(is_live) /\ count \in {2, 3}
        is_born == ~Truthy(is_live) /\ count = 3
    IN  PyBool(stays_live \/ is_born)

\* the new list of lists with the last cell of every row left out
next_state_short(st) ==
    [i \in 1..Len(st) |->
        [j \in 1..Len(st[i]) - 1 |-> next_cell(st, <<i - 1, j - 1>>, st[i][j])]]

\* World.next_state: the new list of lists
next_state(st) ==
    [i \in 1..Len(st) |->
        [j \in 1..Len(st[i]) |-> next_cell(st, <<i - 1, j - 1>>, st[i][j])]]

\* the coordinates of the cells next_state enumerates
cell_coordinates(st) ==
    UNION {{<<i - 1, j - 1>> : j \in 1..Len(st[i])} : i \in 1..Len(st)}

\* every coordinate next_state hands to __get_cell
looked_up(st) ==
    UNION {neighbour_coordinates(st, c) : c \in cell_coordinates(st)}

\* next_state raises when one of the lookups does
lookup_raises(st, coordinates) ==
    \E c \in coordinates : get_cell(st, c) = "IndexError"

\* ------------------------------------------------------------------ inputs
Bools == {"True", "False"}

\* the grid of the given size whose live cells are those of live
grid_of(rows, cols, live) ==
    [i \in 1..rows |-> [j \in 1..cols |-> PyBool(<<i - 1, j - 1>> \in live)]]

\* the start states of test_world_triominoes.py, and the block
Triomino1 == {<<3, 1>>, <<1, 2>>, <<2, 1>>}
Triomino2 == {<<3, 2>>, <<1, 2>>, <<2, 2>>}
Triomino3 == {<<1, 1>>, <<1, 2>>, <<2, 1>>}
Triomino4 == {<<3, 1>>, <<1, 3>>, <<2, 2>>}
Block == {<<1, 1>>, <<1, 2>>, <<2, 1>>, <<2, 2>>}
StartPatterns == {Triomino1, Triomino2, Triomino3, Triomino4, Block}

\* every non-jagged all-bool grid of at most MaxRows x MaxCols
BoolGrids ==
    UNION {[1..r -> [1..c -> Bools]] : r \in 0..MaxRows, c \in 0..MaxCols}

\* every list of rows of Python values, jagged or not
RawRows == UNION {[1..c -> PyValues] : c \in 0..MaxRawCols}
RawGrids == UNION {[1..r -> RawRows] : r \in 0..MaxRawRows}

\* every grid of at most MaxPatternDim x MaxPatternDim that holds a start pattern
PatternGrids ==
    UNION {{grid_of(r, c, p) : p \in {q \in StartPatterns :
                                        \A x \in q : x[1] < r /\ x[2] < c}} :
           r \in 1..MaxPatternDim, c \in 1..MaxPatternDim}

Inputs == BoolGrids \cup RawGrids \cup PatternGrids

\* ----------------------------------------------------------------- actions
Init ==
    /\ raw \in Inputs
    /\ pc = "start"
    /\ state = <<>>
    /\ raised = "none"
    /\ calls = 0
    /\ lookups = {}

\* World(raw): __validate_state, then self.state = initial_state
Construct ==
    /\ pc = "start"
    /\ LET result == validate_state(raw)
       IN  IF result = "ok"
           THEN /\ state' = init_state(raw)
                /\ pc' = "constructed"
                /\ raised' = "none"
           ELSE /\ state' = state
                /\ pc' = "failed"
                /\ raised' = result
    /\ UNCHANGED <<raw, calls, lookups>>

\* world.next_state()
NextState ==
    /\ pc = "constructed"
    /\ calls < MaxCalls
    /\ lookups' = looked_up(state)
    /\ IF lookup_raises(state, lookups')
       THEN /\ raised' = "IndexError"
            /\ UNCHANGED <<state, calls>>
       ELSE /\ raised' = "none"
            /\ state' = next_state(state)
            /\ calls' = calls + 1
    /\ UNCHANGED <<raw, pc>>

Next == Construct \/ NextState

Spec == Init /\ [][Next]_vars

\* ------------------------------------------------- vocabulary of the claims
\* a coordinate of the grid
InGrid(grid, c) ==
    /\ c[1] \in 0..Len(grid) - 1
    /\ c[2] \in 0..Len(grid[c[1] + 1]) - 1

\* the cell at (r, c) is in the grid and live; outside the grid every cell is dead
LiveAt(grid, r, c) == InGrid(grid, <<r, c>>) /\ grid[r + 1][c + 1] = "True"

\* the number of live cells among the 8 neighbours of (r, c)
LiveNeighbours(grid, r, c) ==
    Cardinality({d \in (-1..1) \X (-1..1) :
        d # <<0, 0>> /\ LiveAt(grid, r + d[1], c + d[2])})

\* Conway's rule for the cell at (r, c)
ConwayLive(grid, r, c) ==
    \/ LiveAt(grid, r, c) /\ LiveNeighbours(grid, r, c) \in {2, 3}
    \/ ~LiveAt(grid, r, c) /\ LiveNeighbours(grid, r, c) = 3

\* the coordinates of the live cells
LiveCells(grid) ==
    {c \in cell_coordinates(grid) : grid[c[1] + 1][c[2] + 1] = "True"}

\* the grid has every coordinate of the set
Holds(grid, coordinates) == \A c \in coordinates : InGrid(grid, c)

\* some row is not as long as the first one
IsJagged(grid) == \E i \in 1..Len(grid) : Len(grid[i]) # Len(grid[1])

\* row i has a cell that is not a bool
RowHasNonBool(grid, i) == \E k \in 1..Len(grid[i]) : grid[i][k] \notin Bools
HasNonBool(grid) == \E i \in 1..Len(grid) : RowHasNonBool(grid, i)

\* non-jagged and all-bool
IsValidGrid(grid) == ~IsJagged(grid) /\ ~HasNonBool(grid)

\* ------------------------------------------------------------------ claims

\* C1: one next_state call replaces the state with the grid in which every
\* cell of the old grid is live exactly when Conway's rule says so, the
\* neighbours being the 8 surrounding cells and every cell outside the grid
\* counting as dead (no wraparound).
C1_ConwayRule ==
    [][(pc = "constructed" /\ calls' = calls + 1) =>
        /\ Len(state') = Len(state)
        /\ \A i \in 1..Len(state) :
            /\ Len(state'[i]) = Len(state[i])
            /\ \A j \in 1..Len(state[i]) :
                (state'[i][j] = "True") <=> ConwayLive(state, i - 1, j - 1)]_vars

\* a first generation with a birth, a death and a survival
C1_Witness ==
    /\ pc = "constructed"
    /\ calls = 1
    /\ LiveCells(state) \ LiveCells(raw) # {}
    /\ LiveCells(raw) \ LiveCells(state) # {}
    /\ LiveCells(raw) \cap LiveCells(state) # {}

\* C2 as stated: a jagged input always fails with ValueError, whatever else
\* the input contains.
C2_JaggedAlwaysValueError ==
    (pc # "start" /\ IsJagged(raw)) => (pc = "failed" /\ raised = "ValueError")

\* C2 amended: a jagged input always fails; with ValueError when no cell
\* that is not a bool occurs in the rows up to and including the first row
\* whose length differs from the first row's, and with TypeError otherwise.
C2_JaggedFails ==
    (pc # "start" /\ IsJagged(raw)) =>
        /\ pc = "failed"
        /\ LET first == CHOOSE i \in 1..Len(raw) :
                            /\ Len(raw[i]) # Len(raw[1])
                            /\ \A k \in 1..i - 1 : Len(raw[k]) = Len(raw[1])
           IN  raised = IF \E i \in 1..first : RowHasNonBool(raw, i)
                        THEN "TypeError" ELSE "ValueError"

\* a jagged input with a non-bool cell that failed with ValueError
C2_Witness ==
    /\ pc = "failed"
    /\ IsJagged(raw)
    /\ HasNonBool(raw)
    /\ raised = "ValueError"

\* C3 as stated: an input with a cell that is not a bool always fails with
\* TypeError, whatever else the input contains.
C3_NonBoolAlwaysTypeError ==
    (pc # "start" /\ HasNonBool(raw)) => (pc = "failed" /\ raised = "TypeError")

\* C3 amended: an input with a cell that is not a bool always fails; with
\* TypeError when no row before the first row that has such a cell differs in
\* length from the first row, and with ValueError otherwise.
C3_NonBoolFails ==
    (pc # "start" /\ HasNonBool(raw)) =>
        /\ pc = "failed"
        /\ LET first == CHOOSE i \in 1..Len(raw) :
                            /\ RowHasNonBool(raw, i)
                            /\ \A k \in 1..i - 1 : ~RowHasNonBool(raw, k)
           IN  raised = IF \E i \in 1..first - 1 : Len(raw[i]) # Len(raw[1])
                        THEN "ValueError" ELSE "TypeError"

\* a jagged input with a non-bool cell that failed with TypeError
C3_Witness ==
    /\ pc = "failed"
    /\ HasNonBool(raw)
    /\ IsJagged(raw)
    /\ raised = "TypeError"

\* C4: next_state never raises on a World built from a valid grid, after any
\* number of calls, and no coordinate outside the grid is ever looked up.
C4_NeverRaises ==
    pc = "constructed" =>
        /\ raised = "none"
        /\ \A c \in lookups : InGrid(state, c)

\* next_state has returned on a grid of a single row of several cells
C4_Witness ==
    /\ pc = "constructed"
    /\ calls >= 2
    /\ raised = "none"
    /\ Len(state) = 1
    /\ Len(state[1]) >= 2
    /\ lookups # {}

\* C5: after any sequence of next_state calls the state is a valid dense grid
\* and get_dimensions is what it was right after construction.
C5_ValidSameDimensions ==
    pc = "constructed" =>
        /\ IsValidGrid(state)
        /\ get_dimensions(state) = get_dimensions(raw)

\* three generations of a grid that is not square
C5_Witness ==
    /\ pc = "constructed"
    /\ calls >= 3
    /\ get_dimensions(state) = <<2, 3>>
    /\ LiveCells(state) # {}

\* C6: before any next_state call get_state is the input, row for row and
\* cell for cell.
C6_RoundTrip ==
    (pc = "constructed" /\ calls = 0) => get_state = raw

\* a World just constructed from a grid of several rows with live and dead cells
C6_Witness ==
    /\ pc = "constructed"
    /\ calls = 0
    /\ Len(raw) >= 2
    /\ LiveCells(raw) # {}
    /\ LiveCells(raw) # cell_coordinates(raw)
    /\ get_state = raw

\* C7: the blinker {(1,2),(2,2),(3,2)} is {(2,1),(2,2),(2,3)} after one call
\* and itself again after two, in every grid that holds these coordinates.
C7_Blinker ==
    (/\ pc = "constructed"
     /\ LiveCells(raw) = Triomino2
     /\ Holds(raw, Triomino2 \cup {<<2, 1>>, <<2, 2>>, <<2, 3>>})) =>
        /\ calls = 1 => LiveCells(state) = {<<2, 1>>, <<2, 2>>, <<2, 3>>}
        /\ calls = 2 => LiveCells(state) = Triomino2

\* the blinker after its second generation
C7_Witness ==
    /\ pc = "constructed"
    /\ LiveCells(raw) = Triomino2
    /\ Holds(raw, {<<2, 1>>, <<2, 3>>})
    /\ calls = 2
    /\ LiveCells(state) = Triomino2

\* C8: the block {(1,1),(1,2),(2,1),(2,2)} is the live set after each of the
\* first 10 (here: MaxCalls) calls, when the World starts from the block and
\* when it starts from {(1,1),(1,2),(2,1)}.
C8_Block ==
    (/\ pc = "constructed"
     /\ LiveCells(raw) \in {Block, Triomino3}
     /\ Holds(raw, Block)
     /\ calls >= 1) =>
        LiveCells(state) = Block

\* the tenth generation of the World of the test
C8_Witness ==
    /\ pc = "constructed"
    /\ LiveCells(raw) = Triomino3
    /\ calls = 10
    /\ LiveCells(state) = Block

\* C9: {(3,1),(1,2),(2,1)} is {(2,1),(2,2)} after one call and empty after two.
C9_Extinction ==
    (/\ pc = "constructed"
     /\ LiveCells(raw) = Triomino1
     /\ Holds(raw, Triomino1 \cup {<<2, 1>>, <<2, 2>>})) =>
        /\ calls = 1 => LiveCells(state) = {<<2, 1>>, <<2, 2>>}
        /\ calls = 2 => LiveCells(state) = {}

\* the second generation of the first triomino
C9_Witness ==
    /\ pc = "constructed"
    /\ LiveCells(raw) = Triomino1
    /\ calls = 2
    /\ LiveCells(state) = {}

\* C10: {(3,1),(1,3),(2,2)} is {(2,2)} after one call and empty after two.
C10_Diagonal ==
    (/\ pc = "constructed"
     /\ LiveCells(raw) = Triomino4
     /\ Holds(raw, Triomino4)) =>
        /\ calls = 1 => LiveCells(state) = {<<2, 2>>}
        /\ calls = 2 => LiveCells(state) = {}

\* the second generation of the diagonal triomino
C10_Witness ==
    /\ pc = "constructed"
    /\ LiveCells(raw) = Triomino4
    /\ calls = 2
    /\ LiveCells(state) = {}

====
